---- MODULE Spec2Model ----
(***************************************************************************)
(* Model of dns_name (src/src/lib.rs): the public-suffix rule trie built   *)
(* by List::build / List::append, the classification of a name by          *)
(* DnsName::find_match, and the accessors of DnsName.                      *)
(*                                                                         *)
(* Strings are sequences of one-character strings; every character of the  *)
(* modelled alphabets is ASCII, so byte offsets and character offsets      *)
(* coincide.  Option<T> is modelled as a set with at most one element:     *)
(* None == {} and Some(x) == {x}.                                          *)
(***************************************************************************)
EXTENDS Integers, Sequences, FiniteSets, TLC

VARIABLES overflow_checks, pc, text, list, build_err, query, parsed

vars == <<overflow_checks, pc, text, list, build_err, query, parsed>>

(* ---------------------------- bounds ----------------------------------- *)
MaxTextLen == 4
MaxNameLen == 4

TextChars == {"a", "*", "!", ".", ","}
NameChars == {"a", ".", " ", "\t"}

(* usize arithmetic wraps modulo 2^64 when overflow checks are off; the    *)
(* modulus is scaled to 2^30 to stay inside TLC's integers.  Every value   *)
(* the model wraps is within MaxNameLen + 1 of 0 or of the modulus.        *)
USIZE == 2^30

(* ------------------------- string helpers ------------------------------ *)
Some(x) == {x}
None == {}
Unwrap(o) == CHOOSE x \in o : TRUE

Reverse(s) == [i \in 1..Len(s) |-> s[Len(s) + 1 - i]]

RECURSIVE SplitFrom(_, _, _, _)
SplitFrom(s, d, i, cur) ==
    IF i > Len(s) THEN <<cur>>
    ELSE IF s[i] = d THEN <<cur>> \o SplitFrom(s, d, i + 1, <<>>)
    ELSE SplitFrom(s, d, i + 1, Append(cur, s[i]))

\* str::split(d): "" splits into one empty piece.
Split(s, d) == SplitFrom(s, d, 1, <<>>)

\* str::rsplit(d): the same pieces, last first.
RSplit(s, d) == Reverse(Split(s, d))

RECURSIVE trim_end_matches(_, _)
trim_end_matches(s, c) ==
    IF Len(s) > 0 /\ s[Len(s)] = c THEN trim_end_matches(SubSeq(s, 1, Len(s) - 1), c)
    ELSE s

to_ascii_lowercase_char(c) ==
    IF c = "A" THEN "a" ELSE IF c = "B" THEN "b" ELSE c

to_ascii_lowercase(s) == [i \in 1..Len(s) |-> to_ascii_lowercase_char(s[i])]

starts_with(s, c) == Len(s) > 0 /\ s[1] = c

contains(s, c) == \E i \in 1..Len(s) : s[i] = c

\* &s[a..b] with 0-based half-open byte offsets.
Slice(s, a, b) == SubSeq(s, a + 1, b)

RECURSIVE SeqsUpTo(_, _)
SeqsUpTo(S, n) ==
    IF n = 0 THEN {<<>>}
    ELSE LET shorter == SeqsUpTo(S, n - 1)
         IN  shorter \cup {Append(s, c) : s \in {t \in shorter : Len(t) = n - 1}, c \in S}

Texts == SeqsUpTo(TextChars, MaxTextLen)
Names == SeqsUpTo(NameChars, MaxNameLen)

(* ------------------------------ trie ----------------------------------- *)
PREVAILING_STAR_RULE == <<"*">>

\* ListLeaf::new
ListLeaf(is_exception_rule) == [is_exception_rule |-> is_exception_rule]

\* The trie of nested ListNode values is flattened: a node is named by the
\* path of labels leading to it from the root (rightmost label of a rule
\* first); the trie maps each existing node to its `leaf` option, and a node
\* p has a child keyed by label l iff Append(p, l) is a node.
\* List::empty: only the root node, no leaf.
EmptyList == (<<>> :> None)

HasChild(root, node, label) == Append(node, label) \in DOMAIN root

\* The loop of List::append over rule.rsplit('.'): descends from `node`,
\* creating missing children; an empty label aborts with the nodes created
\* so far left in place.
RECURSIVE AppendLabels(_, _, _, _, _)
AppendLabels(root, node, labels, i, is_exception_rule) ==
    IF i > Len(labels)
    THEN [ok |-> TRUE, root |-> [root EXCEPT ![node] = Some(ListLeaf(is_exception_rule))]]
    ELSE IF labels[i] = <<>>
    THEN [ok |-> FALSE, root |-> root]
    ELSE LET child == Append(node, labels[i])
             grown == IF child \in DOMAIN root THEN root ELSE root @@ (child :> None)
         IN  AppendLabels(grown, child, labels, i + 1, is_exception_rule)

\* List::append
append(root, rule) ==
    LET is_exception_rule == starts_with(rule, "!")
        stripped == IF is_exception_rule THEN SubSeq(rule, 2, Len(rule)) ELSE rule
    IN  AppendLabels(root, <<>>, RSplit(stripped, "."), 1, is_exception_rule)

\* The loop of List::build over res.split(','), stopping at the first error.
RECURSIVE AppendAll(_, _, _)
AppendAll(root, rules, i) ==
    IF i > Len(rules) THEN [ok |-> TRUE, root |-> root]
    ELSE LET r == append(root, rules[i])
         IN  IF r.ok THEN AppendAll(r.root, rules, i + 1) ELSE r

NoError == "none"
InvalidRule == "InvalidData: invalid rule"
InvalidList == "NotFound: invalid list"
InvalidName == "InvalidInput: invalid name"

\* List::build: the compiled trie, or the error it returns.
build(res) ==
    LET user == AppendAll(EmptyList, Split(res, ","), 1)
    IN  IF ~user.ok THEN [err |-> InvalidRule, list |-> None]
        ELSE IF DOMAIN user.root = {<<>>} THEN [err |-> InvalidList, list |-> None]
        ELSE LET all == append(user.root, PREVAILING_STAR_RULE)
             IN  IF all.ok THEN [err |-> NoError, list |-> Some(all.root)]
                 ELSE [err |-> InvalidRule, list |-> None]

(* ------------------------- usize arithmetic ---------------------------- *)
\* a - b and a + b on usize: with overflow checks the operation panics when
\* the mathematical result leaves 0..USIZE-1, without them it wraps.
wrapping_sub(a, b) == (a - b + USIZE) % USIZE
sub_overflows(a, b) == a < b
wrapping_add(a, b) == (a + b) % USIZE
add_overflows(a, b) == a + b >= USIZE

(* ----------------------------- DnsName --------------------------------- *)
Range(start, end) == [start |-> start, end |-> end]

\* DnsName::new
new(name, suffix, root) ==
    [name        |-> name,
     rname       |-> Reverse(name),
     root        |-> root,
     suffix      |-> suffix,
     registrable |-> IF suffix # None /\ root # None
                     THEN Some(Range(Unwrap(root).start, wrapping_sub(Unwrap(suffix).start, 1)))
                     ELSE None]

\* The subtraction `suffix.start - 1` of DnsName::new overflows.
new_overflows(suffix, root) ==
    suffix # None /\ root # None /\ sub_overflows(Unwrap(suffix).start, 1)

RECURSIVE SumLen(_, _)
SumLen(parts, n) == IF n = 0 THEN 0 ELSE Len(parts[n]) + SumLen(parts, n - 1)

Min(a, b) == IF a < b THEN a ELSE b

\* The fold of DnsName::subname_length: total length of the last s_len labels.
subname_fold(input, s_len) ==
    LET parts == Reverse(Split(trim_end_matches(input, "."), "."))
    IN  SumLen(parts, Min(s_len, Len(parts)))

\* DnsName::subname_length: len + (s_len - 1)
subname_length(input, s_len) ==
    wrapping_add(subname_fold(input, s_len), wrapping_sub(s_len, 1))

subname_length_overflows(input, s_len) ==
    \/ sub_overflows(s_len, 1)
    \/ add_overflows(subname_fold(input, s_len), wrapping_sub(s_len, 1))

\* The trie walk of DnsName::find_match over domain.rsplit('.'): `labels` is
\* the rsplit sequence, `current` the node reached, `s_labels_len` the labels
\* matched so far, `longest_valid` the last (leaf, length) recorded.
RECURSIVE Walk(_, _, _, _, _, _)
Walk(root, current, labels, i, s_labels_len, longest_valid) ==
    IF i > Len(labels) THEN longest_valid
    ELSE LET next == IF HasChild(root, current, labels[i])
                     THEN Some(Append(current, labels[i]))
                     ELSE IF HasChild(root, current, <<"*">>)
                     THEN Some(Append(current, <<"*">>))
                     ELSE None
         IN  IF next = None THEN longest_valid
             ELSE LET child == Unwrap(next)
                      found == IF root[child] # None
                               THEN Some([leaf |-> Unwrap(root[child]), len |-> s_labels_len + 1])
                               ELSE longest_valid
                  IN  Walk(root, child, labels, i + 1, s_labels_len + 1, found)

\* longest_valid at the end of the walk
find_longest_valid(domain, root) == Walk(root, <<>>, RSplit(domain, "."), 1, 0, None)

Ok(value) == [kind |-> "Ok", err |-> NoError, value |-> Some(value)]
Err(e) == [kind |-> "Err", err |-> e, value |-> None]
Panic == [kind |-> "Panic", err |-> NoError, value |-> None]

\* The domain find_match works on: lowercased, trailing dots trimmed.
trimmed(input) == trim_end_matches(to_ascii_lowercase(input), ".")

\* The "very basic sanity check" of the labels in DnsName::find_match.
label_is_invalid(label) == label = <<>> \/ contains(label, " ")

\* Variant: only the rightmost label is checked.
labels_are_invalid_rightmost_only(domain) ==
    LET labels == Split(domain, ".")
    IN  label_is_invalid(labels[Len(labels)])

labels_are_invalid(domain) ==
    LET labels == Split(domain, ".")
    IN  \E i \in 1..Len(labels) : label_is_invalid(labels[i])

\* suffix_len after the exception adjustment (wrapping)
effective_suffix_len(longest_valid) ==
    LET lv == Unwrap(longest_valid)
    IN  IF lv.leaf.is_exception_rule THEN wrapping_sub(lv.len, 1) ELSE lv.len

\* Variant: the dots are counted, the `+ 1` is forgotten.
d_labels_len_dots_only(domain) == Cardinality({i \in 1..Len(domain) : domain[i] = "."})

\* d_labels_len = domain.match_indices('.').count() + 1
d_labels_len(domain) == Cardinality({i \in 1..Len(domain) : domain[i] = "."}) + 1

\* The suffix range computed by find_match (lines 282-285).
suffix_range(domain, suffix_len) ==
    Range(wrapping_sub(Len(domain), subname_length(domain, suffix_len)), Len(domain))

\* The root range computed by find_match (lines 289-296; the local variable
\* is called `registrable` there and is passed to DnsName::new as `root`).
root_range(domain, suffix_len) ==
    IF d_labels_len(domain) > suffix_len
    THEN Some(Range(wrapping_sub(Len(domain), subname_length(domain, suffix_len + 1)),
                    Len(domain)))
    ELSE None

\* Some usize operation of the Some((leaf, suffix_len)) arm overflows.
matched_overflows(domain, longest_valid) ==
    LET lv == Unwrap(longest_valid)
        suffix_len == effective_suffix_len(longest_valid)
        has_root == d_labels_len(domain) > suffix_len
    IN  \/ lv.leaf.is_exception_rule /\ sub_overflows(lv.len, 1)
        \/ subname_length_overflows(domain, suffix_len)
        \/ sub_overflows(Len(domain), subname_length(domain, suffix_len))
        \/ has_root /\ subname_length_overflows(domain, suffix_len + 1)
        \/ has_root /\ sub_overflows(Len(domain), subname_length(domain, suffix_len + 1))
        \/ new_overflows(Some(suffix_range(domain, suffix_len)), root_range(domain, suffix_len))

\* The `match longest_valid` arm Some((leaf, suffix_len)) of find_match: an
\* overflowing usize operation panics when the build checks overflow and
\* wraps otherwise.
matched(lowered, domain, longest_valid, checks) ==
    LET suffix_len == effective_suffix_len(longest_valid)
    IN  IF checks /\ matched_overflows(domain, longest_valid) THEN Panic
        ELSE Ok(new(lowered, Some(suffix_range(domain, suffix_len)),
                    root_range(domain, suffix_len)))

\* DnsName::find_match; `checks` tells whether the build panics on integer
\* overflow (debug profile) or wraps (release profile).
find_match(input, root, checks) ==
    IF Len(input) = 1 /\ starts_with(input, ".") THEN Ok(new(input, None, None))
    ELSE IF starts_with(input, ".") THEN Err(InvalidName)
    ELSE LET lowered == to_ascii_lowercase(input)
             domain == trim_end_matches(lowered, ".")
         IN  IF labels_are_invalid(domain) THEN Err(InvalidName)
             ELSE LET longest_valid == find_longest_valid(domain, root)
                  IN  IF longest_valid = None THEN Ok(new(lowered, None, None))
                      ELSE matched(lowered, domain, longest_valid, checks)

(* ----------------------------- accessors ------------------------------- *)
\* DnsName::root
root_text(d) ==
    IF d.root # None /\ Unwrap(d.root).start < Len(d.name)
    THEN Some(Slice(d.name, Unwrap(d.root).start, Len(d.name)))
    ELSE None

\* Variant: the slice stops at the stored end of the range.
suffix_text_to_range_end(d) ==
    IF d.suffix # None /\ Unwrap(d.suffix).start < Len(d.name)
    THEN Some(Slice(d.name, Unwrap(d.suffix).start, Unwrap(d.suffix).end))
    ELSE None

\* DnsName::suffix
suffix_text(d) ==
    IF d.suffix # None /\ Unwrap(d.suffix).start < Len(d.name)
    THEN Some(Slice(d.name, Unwrap(d.suffix).start, Len(d.name)))
    ELSE None

\* DnsName::registrable
registrable_text(d) ==
    IF /\ d.registrable # None
       /\ Unwrap(d.registrable).start < Len(d.name)
       /\ Unwrap(d.registrable).end < Len(d.name)
    THEN Some(Slice(d.name, Unwrap(d.registrable).start, Unwrap(d.registrable).end))
    ELSE None

(* --------------------------- state machine ----------------------------- *)
NoResult == [kind |-> "None", err |-> NoError, value |-> None]

Init ==
    /\ overflow_checks \in BOOLEAN
    /\ pc = "start"
    /\ text = <<>>
    /\ list = None
    /\ build_err = NoError
    /\ query = <<>>
    /\ parsed = NoResult

\* List::from_str / List::from_reader: compile a rule text.
Build(res) ==
    /\ text' = res
    /\ list' = build(res).list
    /\ build_err' = build(res).err
    /\ pc' = IF build(res).err = NoError THEN "list" ELSE "failed"
    /\ UNCHANGED <<overflow_checks, query, parsed>>

\* List::empty used as the list: no rules at all, not even the fallback.
Empty ==
    /\ pc = "start"
    /\ list' = Some(EmptyList)
    /\ pc' = "list"
    /\ UNCHANGED <<overflow_checks, text, build_err, query, parsed>>

\* List::parse_dns_name / List::parse_domain
ParseDnsName(domain) ==
    /\ query' = domain
    /\ parsed' = find_match(domain, Unwrap(list), overflow_checks)
    /\ pc' = "parsed"
    /\ UNCHANGED <<overflow_checks, text, list, build_err>>

\* A list is compiled once (pc = "start") and then only read; each
\* classification is independent of the others, so one call per behaviour
\* covers them all.
Next ==
    \/ pc = "start" /\ \E res \in Texts : Build(res)
    \/ Empty
    \/ pc = "list" /\ \E domain \in Names : ParseDnsName(domain)

Spec == Init /\ [][Next]_vars

(* ------------------------ vocabulary of the claims --------------------- *)
\* The list in use was returned by a successful List::build.
FromBuild == pc \in {"list", "parsed"} /\ list # Some(EmptyList)

\* The name passes the validity checks of find_match and is not ".".
ValidName(n) ==
    /\ n # <<".">>
    /\ ~starts_with(n, ".")
    /\ ~labels_are_invalid(trimmed(n))

\* Labels of the classified name, leftmost first.
QueryLabels == Split(trimmed(query), ".")

\* Maximum of a non-empty finite set of naturals.
Max(S) == CHOOSE m \in S : \A x \in S : x <= m

\* The last n labels joined by dots.
RECURSIVE JoinLast(_, _)
JoinLast(labels, n) ==
    IF n = 0 THEN <<>>
    ELSE IF n = 1 THEN labels[Len(labels)]
    ELSE JoinLast(SubSeq(labels, 1, Len(labels) - 1), n - 1) \o <<".">> \o labels[Len(labels)]

\* The rules of a rule text as label sequences (leftmost label first),
\* together with the fallback rule `*`.
RuleLabels(entry) ==
    Split(IF starts_with(entry, "!") THEN SubSeq(entry, 2, Len(entry)) ELSE entry, ".")

RuleSet(res) ==
    {RuleLabels(Split(res, ",")[i]) : i \in 1..Len(Split(res, ","))} \cup {<<<<"*">>>>}

\* A rule matches the trailing labels of a name.
RuleMatches(rule, labels) ==
    /\ Len(rule) <= Len(labels)
    /\ \A i \in 0..(Len(rule) - 1) :
          rule[Len(rule) - i] \in {<<"*">>, labels[Len(labels) - i]}

\* Reference longest match: the largest number of labels a matching rule consumes.
ReferenceLongest(res, labels) ==
    Max({0} \cup {Len(r) : r \in {x \in RuleSet(res) : RuleMatches(x, labels)}})

\* Number of labels of the rule the trie walk settles on (0: none).
WalkLongest ==
    LET lv == find_longest_valid(trimmed(query), Unwrap(list))
    IN  IF lv = None THEN 0 ELSE Unwrap(lv).len

\* The classification of `query` ran into an overflowing usize operation.
Overflowed ==
    /\ ValidName(query)
    /\ find_longest_valid(trimmed(query), Unwrap(list)) # None
    /\ matched_overflows(trimmed(query), find_longest_valid(trimmed(query), Unwrap(list)))

Value == Unwrap(parsed.value)

(* ------------------------------- claims -------------------------------- *)
\* C1: longest match wins -- for a compiled rule set and a valid name, the
\* rule the trie walk settles on consumes as many labels as the longest rule
\* of the whole rule set that matches the name's trailing labels.
C1_LongestMatchWins ==
    (pc = "parsed" /\ FromBuild /\ ValidName(query))
        => WalkLongest = ReferenceLongest(text, QueryLabels)

\* C2: fallback guarantee -- for a compiled trie and a valid name other than
\* ".", the result has a suffix that covers at least the rightmost label.
C2_FallbackGuarantee ==
    (pc = "parsed" /\ FromBuild /\ ValidName(query) /\ ~Overflowed)
        => /\ parsed.kind = "Ok"
           /\ Value.suffix # None
           /\ Unwrap(Value.suffix).end = Len(trimmed(query))
           /\ Unwrap(Value.suffix).start
                  <= Len(trimmed(query)) - Len(QueryLabels[Len(QueryLabels)])

\* C3: exception carve-out -- when the longest valid match is an exception
\* leaf reached after k labels, the suffix is the last k-1 labels, the
\* registrable label is the k-th label from the right and root is the last
\* k labels; otherwise the suffix is the last k labels.
C3_ExceptionCarveOut ==
    (pc = "parsed" /\ ValidName(query) /\ WalkLongest > 0)
        => LET lv == Unwrap(find_longest_valid(trimmed(query), Unwrap(list)))
               k == lv.len
               n == IF lv.leaf.is_exception_rule THEN k - 1 ELSE k
               dom == trimmed(query)
           IN  /\ parsed.kind = "Ok"
               /\ Value.suffix # None
               /\ Unwrap(Value.suffix) = Range(Len(dom) - Len(JoinLast(QueryLabels, n)), Len(dom))
               /\ lv.leaf.is_exception_rule =>
                     /\ Value.root # None
                     /\ Unwrap(Value.root) = Range(Len(dom) - Len(JoinLast(QueryLabels, k)), Len(dom))
                     /\ Value.registrable # None
                     /\ Slice(Value.name, Unwrap(Value.registrable).start,
                              Unwrap(Value.registrable).end)
                            = QueryLabels[Len(QueryLabels) - k + 1]

\* C4: structure of a result -- when registrable is present, root and suffix
\* are present, root.start = registrable.start, suffix.start =
\* registrable.end + 1, and root() = registrable() + "." + suffix().
C4_ResultStructure ==
    (pc = "parsed" /\ parsed.kind = "Ok" /\ Value.registrable # None)
        => /\ Value.root # None
           /\ Value.suffix # None
           /\ Unwrap(Value.root).start = Unwrap(Value.registrable).start
           /\ Unwrap(Value.suffix).start = Unwrap(Value.registrable).end + 1
           /\ root_text(Value) # None
           /\ registrable_text(Value) # None
           /\ suffix_text(Value) # None
           /\ Unwrap(root_text(Value))
                  = Unwrap(registrable_text(Value)) \o <<".">> \o Unwrap(suffix_text(Value))

\* Number of labels of the suffix after the exception adjustment, for the
\* rule the walk settled on.
EffectiveSuffixLabels ==
    LET lv == Unwrap(find_longest_valid(trimmed(query), Unwrap(list)))
    IN  IF lv.leaf.is_exception_rule THEN lv.len - 1 ELSE lv.len

\* C5: presence of root and registrable -- in a successful classification in
\* which a rule matched, the stored root and registrable ranges are present
\* iff the name has strictly more labels than the effective suffix; with
\* equal counts only the suffix range is present.
C5_RootPresence ==
    (pc = "parsed" /\ parsed.kind = "Ok" /\ ValidName(query) /\ WalkLongest > 0)
        => /\ Value.suffix # None
           /\ (Value.root # None) = (Len(QueryLabels) > EffectiveSuffixLabels)
           /\ (Value.registrable # None) = (Len(QueryLabels) > EffectiveSuffixLabels)
           /\ (Len(QueryLabels) = EffectiveSuffixLabels)
                  => (Value.root = None /\ Value.registrable = None)

\* Witness of C5: a two-label name matched by a two-label exception rule, so
\* that the effective suffix is one label and root and registrable exist.
C5_Witness ==
    /\ pc = "parsed" /\ parsed.kind = "Ok" /\ ValidName(query) /\ FromBuild
    /\ WalkLongest = 2
    /\ EffectiveSuffixLabels = 1
    /\ Len(QueryLabels) = 2
    /\ Value.root # None
    /\ Value.registrable # None

\* Normalisation as the claim C6 describes it: one trailing dot stripped.
StripOne(n) == IF Len(n) > 0 /\ n[Len(n)] = "." THEN SubSeq(n, 1, Len(n) - 1) ELSE n

HasEmptyLabel(n) == \E i \in 1..Len(Split(n, ".")) : Split(n, ".")[i] = <<>>

\* C6: empty-label rejection -- a name other than "." that has an empty
\* label once one trailing dot is stripped is rejected with InvalidInput.
C6_EmptyLabelRejection ==
    (pc = "parsed" /\ query # <<".">> /\ HasEmptyLabel(StripOne(query)))
        => (parsed.kind = "Err" /\ parsed.err = InvalidName)

Whitespace == {" ", "\t"}

\* C7 as stated: a name with a whitespace character (space, tab, ...) in
\* some label is rejected with InvalidInput.
C7_WhitespaceRejection ==
    (pc = "parsed" /\ \E i \in 1..Len(query) : query[i] \in Whitespace)
        => (parsed.kind = "Err" /\ parsed.err = InvalidName)

\* C7 (amended): a name with a space character (U+0020) in some label,
\* whichever label it is, is rejected with InvalidInput.
C7_SpaceRejection ==
    (pc = "parsed" /\ contains(query, " "))
        => (parsed.kind = "Err" /\ parsed.err = InvalidName)

\* Depth of the trie: the longest path to a node.
TrieDepth == Max({Len(p) : p \in DOMAIN Unwrap(list)})

\* Witness of C7: the space sits in a label the trie walk cannot reach (the
\* name has more labels than the trie is deep), all other labels are fine.
C7_Witness ==
    /\ pc = "parsed" /\ FromBuild
    /\ parsed.kind = "Err"
    /\ ~starts_with(query, ".")
    /\ Len(QueryLabels) > TrieDepth
    /\ contains(QueryLabels[1], " ")
    /\ \A i \in 2..Len(QueryLabels) : ~label_is_invalid(QueryLabels[i])

\* Every stored range lies inside the trimmed name.
RangeOk(r, n) == 0 <= r.start /\ r.start <= r.end /\ r.end <= n

\* C9: no fault in classify -- for a compiled trie and a non-empty name,
\* classify returns InvalidInput or a result, no usize subtraction goes
\* below zero, and every range satisfies 0 <= start <= end <= trimmed length.
C9_NoFault ==
    (pc = "parsed" /\ FromBuild /\ query # <<>>)
        => /\ parsed.kind \in {"Ok", "Err"}
           /\ ~Overflowed
           /\ parsed.kind = "Ok" =>
                 \A r \in Value.suffix \cup Value.root \cup Value.registrable :
                     RangeOk(r, Len(trimmed(query)))

\* The rule text has no usable rule entry: every entry is empty.
NoUsableEntry(res) == \A i \in 1..Len(Split(res, ",")) : Split(res, ",")[i] = <<>>

SomeEntryHasEmptyLabel(res) ==
    \E i \in 1..Len(Split(res, ",")) :
        \E j \in 1..Len(RuleLabels(Split(res, ",")[i])) :
            RuleLabels(Split(res, ",")[i])[j] = <<>>

\* C8: compile error kinds -- a rule text without a usable entry (the empty
\* text in particular) fails with the "invalid list" error, a text with an
\* entry that has an empty label fails with "invalid rule", and a failed
\* compile returns no trie.
C8_CompileErrorKinds ==
    (pc \in {"failed", "list", "parsed"} /\ list # Some(EmptyList))
        => /\ NoUsableEntry(text) => build_err = InvalidList
           /\ (~NoUsableEntry(text) /\ SomeEntryHasEmptyLabel(text)) => build_err = InvalidRule
           /\ build_err # NoError => list = None

\* The trailing dots of a name.
TrailingDots(n) == SubSeq(n, Len(trim_end_matches(n, ".")) + 1, Len(n))

\* C10 as stated: suffix() and root() return the stored name at the stored
\* half-open range [start, end), end being the length of the trimmed name.
C10_AccessorsReturnStoredRange ==
    (pc = "parsed" /\ parsed.kind = "Ok")
        => /\ suffix_text(Value) # None =>
                 Unwrap(suffix_text(Value))
                     = Slice(Value.name, Unwrap(Value.suffix).start, Unwrap(Value.suffix).end)
           /\ root_text(Value) # None =>
                 Unwrap(root_text(Value))
                     = Slice(Value.name, Unwrap(Value.root).start, Unwrap(Value.root).end)

\* C10 (amended): suffix() and root(), when they return a text, return the
\* stored name from the stored start to the end of the stored name, trailing
\* dots included; so for a name given with trailing dots the text is the
\* text for the same name given without them, followed by those dots.
C10_AccessorsReturnTail ==
    (pc = "parsed" /\ parsed.kind = "Ok")
        => LET bare == find_match(trim_end_matches(query, "."), Unwrap(list), overflow_checks)
               dots == TrailingDots(Value.name)
           IN  /\ suffix_text(Value) # None =>
                     Unwrap(suffix_text(Value))
                         = SubSeq(Value.name, Unwrap(Value.suffix).start + 1, Len(Value.name))
               /\ root_text(Value) # None =>
                     Unwrap(root_text(Value))
                         = SubSeq(Value.name, Unwrap(Value.root).start + 1, Len(Value.name))
               /\ (bare.kind = "Ok" /\ suffix_text(Unwrap(bare.value)) # None) =>
                     suffix_text(Value) = Some(Unwrap(suffix_text(Unwrap(bare.value))) \o dots)
               /\ (bare.kind = "Ok" /\ root_text(Unwrap(bare.value)) # None) =>
                     root_text(Value) = Some(Unwrap(root_text(Unwrap(bare.value))) \o dots)

\* Witness of C10: a name given with a trailing dot, classified with a
\* root and a suffix whose texts end in that dot.
C10_Witness ==
    /\ pc = "parsed" /\ parsed.kind = "Ok" /\ FromBuild
    /\ query # <<".">>
    /\ TrailingDots(query) = <<".">>
    /\ root_text(Value) # None
    /\ suffix_text(Value) # None
    /\ Unwrap(suffix_text(Value))[Len(Unwrap(suffix_text(Value)))] = "."
    /\ Unwrap(Value.suffix).end = Len(Value.name) - 1

(* ------------------- specification with letter case -------------------- *)
\* Rule texts and names that contain an uppercase letter.
CaseTextChars == {"a", "A", ".", ","}
CaseNameChars == {"a", "A", "."}

CaseTexts == SeqsUpTo(CaseTextChars, MaxTextLen)
CaseNames == SeqsUpTo(CaseNameChars, MaxNameLen)

\* The same operations as in Next, on mixed-case rule texts and names.
NextCase ==
    \/ pc = "start" /\ \E res \in CaseTexts : Build(res)
    \/ pc = "list" /\ \E domain \in CaseNames : ParseDnsName(domain)

SpecCase == Init /\ [][NextCase]_vars

\* C11: rule labels are case-folded -- a rule text compiles to the same trie
\* as its lowercase form, and a name is classified against it exactly as
\* against the trie of the lowercase rule text.
C11_RuleLabelsCaseFolded ==
    FromBuild
        => LET folded == build(to_ascii_lowercase(text))
           IN  /\ folded.err = NoError
               /\ list = folded.list
               /\ pc = "parsed" =>
                     parsed = find_match(query, Unwrap(folded.list), overflow_checks)
====
